---- MODULE Spec2Model ----
(***************************************************************************)
(* Model of the terminal markdown renderer of codehakase/md.               *)
(*                                                                         *)
(* A string is a sequence of tokens.  A token is one character ("a", " ",  *)
(* "\t", "\n"), one box-drawing or bullet glyph written by name ("BAR" for *)
(* U+2502, "DASH" for U+2500, "TEE_L" for U+251C, "CROSS" for U+253C,      *)
(* "TEE_R" for U+2524, "BULLET" for U+2022, "NBSP" for U+00A0), or one     *)
(* whole ANSI escape sequence ("ESC[0m").  The string functions of Go used *)
(* by the renderer (Split, Join, TrimRight, TrimSpace, Repeat) are         *)
(* operators on such sequences.                                            *)
(***************************************************************************)
EXTENDS Integers, Sequences, FiniteSets, TLC

VARIABLES
    bg,       \* ThemeManager.backgroundType: "light", "dark", "unknown"
    doc,      \* the parsed document tree handed to the walk (its root node)
    path,     \* ast.Walk position: child indexes from the root to the node
    entering, \* ast.Walk position: TRUE before the node's children, FALSE after
    buf,      \* bytes.Buffer of RenderContent
    events,   \* history: one record per walker callback that has returned
    pc,       \* "walk", "post" (walk returned), "done" (RenderContent returned)
    werr,     \* the error ast.Walk returned ("nil" when none)
    result,   \* RenderContent's returned string
    rerr,     \* RenderContent's returned error ("nil" when none)
    text,     \* input string of the post-processing functions (SpecNorm)
    once,     \* N(text) once applied (SpecNorm)
    twice,    \* N(N(text)) (SpecNorm)
    npc,      \* SpecNorm position: "idle", "in", "once", "twice"
    call,     \* a direct call of a library function: its name and arguments
    ret,      \* what the direct call returned
    cpc,      \* position of the direct call: "idle", "called", "returned"
    viewer,   \* a DisplayInVimMode call: position, arguments, what it wrote
    cli,      \* a run of the command: position, arguments, exit status
    other     \* the RenderContent call of the goroutine that is not running

vars == <<bg, doc, path, entering, buf, events, pc, werr, result, rerr,
          text, once, twice, npc, call, ret, cpc, viewer, cli, other>>

renderVars == <<bg, doc, path, entering, buf, events, pc, werr, result, rerr>>
normVars == <<text, once, twice, npc>>
callVars == <<call, ret, cpc>>
sideVars == <<call, ret, cpc, viewer, cli, other>>

(***************************************************************************)
(* Bounds of the model.                                                    *)
(***************************************************************************)
\* longest sequence of top-level core blocks in a generated document
MaxBlocks == 2
\* most columns of a generated table
MaxCols == 2
\* most body rows of a generated table
MaxRows == 1
\* deepest nesting of a generated list
MaxDepth == 3
\* longest input string of the post-processing functions in SpecNorm
MaxLen == 4

(***************************************************************************)
(* Go string functions on token sequences.                                 *)
(***************************************************************************)
NL == "\n"
SP == " "
TAB == "\t"

\* unicode.IsSpace restricted to the tokens of the model
GoSpace == {SP, TAB, NL, "NBSP"}

Max(S) == CHOOSE x \in S : \A y \in S : y <= x

\* strings.Repeat(s, n)
RECURSIVE Repeat(_, _)
Repeat(s, n) == IF n <= 0 THEN <<>> ELSE s \o Repeat(s, n - 1)

\* strings.TrimRight(s, cutset)
TrimRight(s, cutset) ==
    LET keep == {i \in 1..Len(s) : s[i] \notin cutset}
    IN  IF keep = {} THEN <<>> ELSE SubSeq(s, 1, Max(keep))

\* strings.TrimSpace(s)
TrimSpace(s) ==
    LET keep == {i \in 1..Len(s) : s[i] \notin GoSpace}
    IN  IF keep = {} THEN <<>>
        ELSE SubSeq(s, CHOOSE i \in keep : \A j \in keep : i <= j, Max(keep))

\* strings.Split(s, sep) for a one-character separator: k separators give
\* k+1 pieces, the empty string gives one empty piece
RECURSIVE Split(_, _)
Split(s, sep) ==
    LET hits == {i \in 1..Len(s) : s[i] = sep}
    IN  IF hits = {} THEN <<s>>
        ELSE LET i == CHOOSE h \in hits : \A g \in hits : h <= g
             IN  <<SubSeq(s, 1, i - 1)>> \o Split(SubSeq(s, i + 1, Len(s)), sep)

\* strings.Join(lines, sep)
RECURSIVE Join(_, _)
Join(lines, sep) ==
    IF Len(lines) = 0 THEN <<>>
    ELSE IF Len(lines) = 1 THEN lines[1]
    ELSE lines[1] \o sep \o Join(Tail(lines), sep)

\* concatenation of a sequence of strings
Concat(ss) == Join(ss, <<>>)

(***************************************************************************)
(* internal/theme: the colour schemes and the ThemeManager accessors.      *)
(***************************************************************************)
BackgroundTypes == {"unknown", "light", "dark"}

ColorKeys == {"header1", "header2", "header3", "header4", "header5", "header6",
              "bold", "italic", "strikethrough", "code", "blockquote", "link",
              "bullet", "ordered", "table_header", "table_border", "reset"}

buildDarkColorScheme ==
    [k \in ColorKeys |->
        CASE k = "header1" -> "ESC[1;96m"
          [] k = "header2" -> "ESC[1;94m"
          [] k = "header3" -> "ESC[1;95m"
          [] k = "header4" -> "ESC[1;93m"
          [] k = "header5" -> "ESC[1;92m"
          [] k = "header6" -> "ESC[1;91m"
          [] k = "bold" -> "ESC[1m"
          [] k = "italic" -> "ESC[3m"
          [] k = "strikethrough" -> "ESC[9m"
          [] k = "code" -> "ESC[38;5;208m"
          [] k = "blockquote" -> "ESC[38;5;244m"
          [] k = "link" -> "ESC[4;94m"
          [] k = "bullet" -> "ESC[1;97m"
          [] k = "ordered" -> "ESC[1;97m"
          [] k = "table_header" -> "ESC[1;97m"
          [] k = "table_border" -> "ESC[38;5;244m"
          [] k = "reset" -> "ESC[0m"]

buildLightColorScheme ==
    [k \in ColorKeys |->
        CASE k = "header1" -> "ESC[1;34m"
          [] k = "header2" -> "ESC[1;36m"
          [] k = "header3" -> "ESC[1;35m"
          [] k = "header4" -> "ESC[1;33m"
          [] k = "header5" -> "ESC[1;32m"
          [] k = "header6" -> "ESC[1;31m"
          [] k = "bold" -> "ESC[1m"
          [] k = "italic" -> "ESC[3m"
          [] k = "strikethrough" -> "ESC[9m"
          [] k = "code" -> "ESC[38;5;166m"
          [] k = "blockquote" -> "ESC[38;5;240m"
          [] k = "link" -> "ESC[4;34m"
          [] k = "bullet" -> "ESC[1;30m"
          [] k = "ordered" -> "ESC[1;30m"
          [] k = "table_header" -> "ESC[1;30m"
          [] k = "table_border" -> "ESC[38;5;240m"
          [] k = "reset" -> "ESC[0m"]

buildColorScheme(bgType) ==
    IF bgType = "light" THEN buildLightColorScheme ELSE buildDarkColorScheme

\* tm.colors, set once by New / NewWithBackground
colors == buildColorScheme(bg)

\* GetColor handing out the map's zero value for a key it does not hold
GetColor_NoFallback(key) ==
    IF key \in DOMAIN colors THEN colors[key] ELSE ""

GetColor(key) ==
    IF key \in DOMAIN colors THEN colors[key] ELSE colors["reset"]

Style(s, key) == <<GetColor(key)>> \o s \o <<GetColor("reset")>>

StyleNoReset(s, key) == <<GetColor(key)>> \o s

Reset == GetColor("reset")

\* every escape sequence a scheme can hand out, and those that switch a style on
Escapes == {buildDarkColorScheme[k] : k \in ColorKeys}
           \cup {buildLightColorScheme[k] : k \in ColorKeys} \cup {"ESC[chroma]"}
StyleEscapes == Escapes \ {"ESC[0m"}

(***************************************************************************)
(* internal/renderer/styles.go                                             *)
(***************************************************************************)
H1Prefix == <<"#", SP>>
H2Prefix == <<"#", "#", SP>>
H3Prefix == <<"#", "#", "#", SP>>
H4Prefix == <<"#", "#", "#", "#", SP>>
H5Prefix == <<"#", "#", "#", "#", "#", SP>>
H6Prefix == <<"#", "#", "#", "#", "#", "#", SP>>

Indent(s, level) ==
    IF level <= 0 THEN s
    ELSE LET indent == Repeat(<<SP, SP>>, level)
             lines == Split(s, NL)
             out == [i \in 1..Len(lines) |->
                        IF TrimSpace(lines[i]) # <<>> THEN indent \o lines[i]
                        ELSE lines[i]]
         IN  Join(out, <<NL>>)

\* mutant: the trim applied to the text as a whole, not line by line
TrimTrailingWhitespace_WholeText(s) == TrimRight(s, {SP, TAB})

TrimTrailingWhitespace(s) ==
    LET lines == Split(s, NL)
        out == [i \in 1..Len(lines) |-> TrimRight(lines[i], {SP, TAB})]
    IN  Join(out, <<NL>>)

\* mutant: an empty text returned as it is
EnsureTrailingNewline_KeepEmpty(s) ==
    IF s = <<>> THEN <<>> ELSE TrimRight(s, {NL}) \o <<NL>>

EnsureTrailingNewline(s) == TrimRight(s, {NL}) \o <<NL>>

(***************************************************************************)
(* The document tree (goldmark ast.Node).  Every node is a record with the *)
(* same fields; a field a kind does not have keeps its zero value.         *)
(*   level    Heading.Level, Emphasis.Level                                *)
(*   ordered  List.IsOrdered()                                             *)
(*   value    Text.Segment.Value(source), AutoLink.URL(source)             *)
(*   soft, hard, raw   Text.SoftLineBreak(), HardLineBreak(), IsRaw()      *)
(*   hasInfo, info     FencedCodeBlock.Info != nil, Info.Text(source)      *)
(*   lines    Lines() of a code block, each line with its line ending      *)
(*   dest     Link.Destination                                             *)
(***************************************************************************)
Mk(kind, children) ==
    [kind |-> kind, children |-> children, level |-> 0, ordered |-> FALSE,
     value |-> <<>>, soft |-> FALSE, hard |-> FALSE, raw |-> FALSE,
     hasInfo |-> FALSE, info |-> <<>>, lines |-> <<>>, dest |-> <<>>]

Text(v) == [Mk("Text", <<>>) EXCEPT !.value = v]
SoftText(v) == [Mk("Text", <<>>) EXCEPT !.value = v, !.soft = TRUE]
HardText(v) == [Mk("Text", <<>>) EXCEPT !.value = v, !.hard = TRUE]
Emphasis(level, children) == [Mk("Emphasis", children) EXCEPT !.level = level]
CodeSpan(v) == Mk("CodeSpan", <<[Text(v) EXCEPT !.raw = TRUE]>>)
Link(dest, children) == [Mk("Link", children) EXCEPT !.dest = dest]
AutoLink(url) == [Mk("AutoLink", <<>>) EXCEPT !.value = url]
Paragraph(children) == Mk("Paragraph", children)
Heading(level, children) == [Mk("Heading", children) EXCEPT !.level = level]
List(ordered, items) == [Mk("List", items) EXCEPT !.ordered = ordered]
ListItem(children) == Mk("ListItem", children)
\* the block a tight list item holds its text in: a kind renderNode has no case for
TextBlock(children) == Mk("TextBlock", children)
FencedCodeBlock(hasInfo, info, lines) ==
    [Mk("FencedCodeBlock", <<>>) EXCEPT !.hasInfo = hasInfo, !.info = info,
                                         !.lines = lines]
CodeBlock(lines) == [Mk("CodeBlock", <<>>) EXCEPT !.lines = lines]

\* GFM table: Table -> TableHeader -> TableCell*, Table -> TableRow* -> TableCell*
TableCells(n, v) == [i \in 1..n |-> Mk("TableCell", <<Text(<<v>>)>>)]
Table(n, r) ==
    Mk("Table", <<Mk("TableHeader", TableCells(n, "A"))>>
                \o [i \in 1..r |-> Mk("TableRow", TableCells(n, "1"))])

(***************************************************************************)
(* The documents of the model.                                             *)
(***************************************************************************)
\* one block of every top-level kind the renderer writes something for
CoreBlocks ==
    { Paragraph(<<Text(<<"a">>)>>),
      Heading(1, <<Text(<<"T">>)>>),
      List(FALSE, <<ListItem(<<TextBlock(<<Text(<<"a">>)>>)>>),
                    ListItem(<<TextBlock(<<Text(<<"b">>)>>)>>)>>),
      Mk("Blockquote", <<Paragraph(<<Text(<<"q">>)>>)>>),
      FencedCodeBlock(TRUE, <<"g", "o">>, <<<<"x", "=", "1", NL>>>>),
      CodeBlock(<<<<"y", NL>>>>),
      Mk("ThematicBreak", <<>>),
      Table(1, 1) }

RECURSIVE SeqsUpTo(_, _)
SeqsUpTo(S, n) ==
    IF n = 0 THEN {<<>>}
    ELSE LET shorter == SeqsUpTo(S, n - 1)
         IN  shorter \cup {Append(q, x) : q \in shorter, x \in S}

\* a paragraph with a node of every inline kind
RichParagraph ==
    Paragraph(<<Text(<<"a", SP>>),
                Emphasis(1, <<Text(<<"i">>)>>),
                Emphasis(2, <<Text(<<"b">>)>>),
                Mk("Strikethrough", <<Text(<<"s">>)>>),
                Link(<<"u">>, <<Text(<<"l">>)>>),
                CodeSpan(<<"c">>),
                AutoLink(<<"w">>),
                Mk("RawHTML", <<>>),
                SoftText(<<"x">>),
                HardText(<<"y">>),
                Text(<<"z">>)>>)

\* an ordered list whose item holds a task checkbox and a nested bullet list
\* with an empty item
NestedList ==
    List(TRUE, <<ListItem(<<TextBlock(<<Mk("TaskCheckBox", <<>>), Text(<<"t">>)>>),
                            List(FALSE, <<ListItem(<<TextBlock(<<Text(<<"n">>)>>)>>),
                                          ListItem(<<>>)>>)>>)>>)

\* a loose list: its items hold paragraphs
LooseList ==
    List(FALSE, <<ListItem(<<Paragraph(<<Text(<<"a">>)>>),
                             Paragraph(<<Text(<<"b">>)>>)>>)>>)

\* a bullet list nested k deep: the first item of every list but the
\* innermost holds the next list
RECURSIVE DeepList(_)
DeepList(k) ==
    List(FALSE,
         <<ListItem(<<TextBlock(<<Text(<<"a">>)>>)>>
                    \o (IF k > 1 THEN <<DeepList(k - 1)>> ELSE <<>>)),
           ListItem(<<TextBlock(<<Text(<<"b">>)>>)>>)>>)

\* a list inside a blockquote inside a list item
QuotedList ==
    List(TRUE, <<ListItem(<<TextBlock(<<Text(<<"a">>)>>),
                            Mk("Blockquote", <<DeepList(1)>>)>>)>>)

SpecialDocs ==
    { <<RichParagraph>>,
      <<NestedList>>,
      <<LooseList, Paragraph(<<Text(<<"a">>)>>)>>,
      <<Mk("HTMLBlock", <<>>), Paragraph(<<Text(<<"a">>)>>)>>,
      <<Paragraph(<<Mk("RawHTML", <<>>)>>), Paragraph(<<Text(<<"a">>)>>)>>,
      <<Heading(1, <<>>)>>,
      <<FencedCodeBlock(FALSE, <<>>, <<<<SP, NL>>>>)>>,
      <<FencedCodeBlock(TRUE, <<"z">>, <<<<"x", SP, NL>>, <<NL>>>>),
        Paragraph(<<Text(<<"a">>)>>)>> }
    \cup { <<Heading(l, <<Text(<<"T">>), Emphasis(1, <<Text(<<"i">>)>>)>>),
             Paragraph(<<Text(<<"a">>)>>)>> : l \in 2..6 }
    \cup { <<DeepList(k)>> : k \in 1..MaxDepth }
    \cup { <<QuotedList>> }
    \cup { <<Paragraph(<<Text(<<"a">>),
                         Mk("CodeSpan",
                            <<[Text(<<"c">>) EXCEPT !.raw = TRUE],
                              [Text(<<"d">>) EXCEPT !.raw = TRUE]>>)>>)>> }
    \cup { <<Table(n, r)>> : n \in 1..MaxCols, r \in 0..MaxRows }
    \cup { <<Table(n, r), Paragraph(<<Text(<<"a">>)>>)>> :
             n \in 1..MaxCols, r \in 0..MaxRows }

\* the top-level block sequences: the Document node's children
Docs == SeqsUpTo(CoreBlocks, MaxBlocks) \cup SpecialDocs

(***************************************************************************)
(* Tree queries of ast.Node, on the path of a node from the root.          *)
(***************************************************************************)
RECURSIVE NodeAt(_, _)
NodeAt(n, p) == IF p = <<>> THEN n ELSE NodeAt(n.children[Head(p)], Tail(p))

Node(p) == NodeAt(doc, p)
Kind(p) == Node(p).kind
Parent(p) == SubSeq(p, 1, Len(p) - 1)
PreviousSibling(p) == p # <<>> /\ p[Len(p)] > 1
NextSibling(p) == p # <<>> /\ p[Len(p)] < Len(Node(Parent(p)).children)

\* the paths of all nodes of the subtree at p, p included
RECURSIVE PathsFrom(_)
PathsFrom(p) ==
    {p} \cup UNION {PathsFrom(Append(p, i)) : i \in 1..Len(Node(p).children)}

\* p is a proper ancestor of q
IsAncestor(p, q) == Len(p) < Len(q) /\ SubSeq(q, 1, Len(p)) = p

(***************************************************************************)
(* internal/highlighter: what a CodeHighlighter's Highlight can return.    *)
(* An error is a sequence of messages, outermost first; nil is <<>>.       *)
(***************************************************************************)
nil == <<>>

\* ChromaHelper.Highlight on success: the formatter's escapes around the
\* code, trailing newlines cut
ChromaHighlight(code) ==
    TrimRight(<<"ESC[chroma]">> \o TrimRight(code, {NL}) \o <<"ESC[0m">>, {NL})

\* strings.ToLower, one token at a time
ToLowerToken(t) ==
    CASE
         t = "A" -> "a" [] t = "B" -> "b" [] t = "C" -> "c" [] t = "D" -> "d" [] t = "E" -> "e" [] t = "F" -> "f" []
         t = "G" -> "g" [] t = "H" -> "h" [] t = "I" -> "i" [] t = "J" -> "j" [] t = "K" -> "k" [] t = "L" -> "l" []
         t = "M" -> "m" [] t = "N" -> "n" [] t = "O" -> "o" [] t = "P" -> "p" [] t = "Q" -> "q" [] t = "R" -> "r" []
         t = "S" -> "s" [] t = "T" -> "t" [] t = "U" -> "u" [] t = "V" -> "v" [] t = "W" -> "w" [] t = "X" -> "x" []
         t = "Y" -> "y" [] t = "Z" -> "z"
         [] OTHER -> t
ToLower(s) == [i \in 1..Len(s) |-> ToLowerToken(s[i])]

\* the cases of normalizeLanguage that rename the hint: <<hint, language>>
LanguageAliases ==
    {
      <<<<"j", "s">>, <<"j", "a", "v", "a", "s", "c", "r", "i", "p", "t">>>>, <<<<"t", "s">>, <<"t", "y", "p", "e", "s", "c", "r", "i", "p", "t">>>>,
      <<<<"p", "y">>, <<"p", "y", "t", "h", "o", "n">>>>, <<<<"r", "b">>, <<"r", "u", "b", "y">>>>,
      <<<<"s", "h">>, <<"b", "a", "s", "h">>>>, <<<<"s", "h", "e", "l", "l">>, <<"b", "a", "s", "h">>>>,
      <<<<"y", "m", "l">>, <<"y", "a", "m", "l">>>>, <<<<"g", "o", "l", "a", "n", "g">>, <<"g", "o">>>>,
      <<<<"r", "s">>, <<"r", "u", "s", "t">>>>, <<<<"c", "+", "+">>, <<"c", "p", "p">>>>,
      <<<<"c", "x", "x">>, <<"c", "p", "p">>>>, <<<<"k", "t">>, <<"k", "o", "t", "l", "i", "n">>>>,
      <<<<"d", "o", "c", "k", "e", "r">>, <<"d", "o", "c", "k", "e", "r", "f", "i", "l", "e">>>>, <<<<"m", "a", "k", "e">>, <<"m", "a", "k", "e", "f", "i", "l", "e">>>>,
      <<<<"p", "l", "a", "i", "n">>, <<"t", "e", "x", "t">>>>, <<<<"t", "x", "t">>, <<"t", "e", "x", "t">>>> }

\* Highlighter.normalizeLanguage
normalizeLanguage(language) ==
    IF language = <<>> THEN language
    ELSE LET lang == ToLower(TrimSpace(language))
         IN  IF \E a \in LanguageAliases : a[1] = lang
             THEN (CHOOSE a \in LanguageAliases : a[1] = lang)[2]
             ELSE lang

\* how a call of ChromaHelper.Highlight ends: getLexer always finds a lexer
\* (lexers.Fallback at last), the lexer or the formatter may fail
ChromaOutcomes == {"ok", "tokenise", "format"}

\* ChromaHelper.Highlight
ChromaHelperHighlight(code, language, outcome) ==
    CASE outcome = "tokenise" ->
             [s |-> <<>>, err |-> <<"failed to tokenize code">>]
      [] outcome = "format" ->
             [s |-> <<>>, err |-> <<"failed to format highlighted code">>]
      [] OTHER -> [s |-> ChromaHighlight(code), err |-> nil]

\* Highlight handing the error of ChromaHelper.Highlight to its caller
Highlight_Propagate(code, language, chromaOk) ==
    IF TrimSpace(code) = <<>> THEN [s |-> code, err |-> nil]
    ELSE IF chromaOk THEN [s |-> ChromaHighlight(code), err |-> nil]
    ELSE [s |-> <<>>, err |-> <<"failed to tokenize code">>]

\* Highlighter.Highlight; chromaOk says whether ChromaHelper.Highlight succeeds
Highlight(code, language, chromaOk) ==
    IF TrimSpace(code) = <<>> THEN [s |-> code, err |-> nil]
    ELSE IF chromaOk THEN [s |-> ChromaHighlight(code), err |-> nil]
    ELSE [s |-> Style(code, "code"), err |-> nil]

\* Highlighter.HighlightCode
HighlightCode(code, language, chromaOk) == Highlight(code, language, chromaOk)

HighlightInlineCode(code) == Style(code, "code")

\* a CodeHighlighter of another kind may return an error
HighlightOutcomes(code, language) ==
    {Highlight(code, language, ok) : ok \in BOOLEAN}
    \cup {[s |-> <<>>, err |-> <<"highlight failed">>]}

NoHighlight == [s |-> <<>>, err |-> nil]

(***************************************************************************)
(* The node handlers of terminalRenderer.  Each takes the node's path and  *)
(* the walk's entering flag and gives what it writes and what it returns.  *)
(***************************************************************************)
R(out) == [out |-> out, err |-> nil]

renderDocument(p, ent) == R(<<>>)

\* the entering branch of renderHeading
HeadingEnter(p) ==
    LET lv == Node(p).level
        headerTheme == CASE lv = 1 -> "header1" [] lv = 2 -> "header2"
                         [] lv = 3 -> "header3" [] lv = 4 -> "header4"
                         [] lv = 5 -> "header5" [] OTHER -> "header6"
        prefix == CASE lv = 1 -> H1Prefix [] lv = 2 -> H2Prefix
                    [] lv = 3 -> H3Prefix [] lv = 4 -> H4Prefix
                    [] lv = 5 -> H5Prefix [] OTHER -> H6Prefix
    IN  R((IF PreviousSibling(p) THEN <<NL>> ELSE <<>>)
          \o StyleNoReset(prefix, headerTheme))

\* mutant: a blank line written after the heading line
renderHeading_BlankAfter(p, ent) ==
    IF ent THEN HeadingEnter(p) ELSE R(<<Reset, NL, NL>>)

renderHeading(p, ent) ==
    IF ent THEN HeadingEnter(p) ELSE R(<<Reset, NL>>)

\* mutant: the second newline forgotten
renderParagraph_OneNewline(p, ent) == IF ~ent THEN R(<<NL>>) ELSE R(<<>>)

renderParagraph(p, ent) ==
    IF ~ent
    THEN R(<<NL>> \o (IF NextSibling(p) THEN <<NL>> ELSE <<>>))
    ELSE R(<<>>)

\* the loop of renderText over strings.Split(value, "\n")
\* TextLines writing a newline for every break of a soft line break
TextLines_SoftEverywhere(n) ==
    LET lines == Split(n.value, NL)
    IN  Concat([i \in 1..Len(lines) |->
                  (IF i > 1
                   THEN IF n.hard \/ n.soft THEN <<NL>> ELSE <<SP>>
                   ELSE <<>>) \o lines[i]])

\* what renderText writes for a Text node that is not raw
TextLines(n) ==
    LET lines == Split(n.value, NL)
    IN  Concat([i \in 1..Len(lines) |->
                  (IF i > 1
                   THEN IF n.hard \/ (i = Len(lines) /\ n.soft)
                        THEN <<NL>> ELSE <<SP>>
                   ELSE <<>>) \o lines[i]])

\* renderText without the test of the parent
renderText_NoSkip(p, ent) ==
    IF ent
    THEN IF Node(p).raw THEN R(Node(p).value)
         ELSE R(TextLines(Node(p)))
    ELSE R(<<>>)

renderText(p, ent) ==
    IF ent
    THEN IF Kind(Parent(p)) = "CodeSpan" THEN R(<<>>)
         ELSE IF Node(p).raw THEN R(Node(p).value)
         ELSE R(TextLines(Node(p)))
    ELSE R(<<>>)

renderEmphasis(p, ent) ==
    IF ent
    THEN IF Node(p).level = 2 THEN R(<<GetColor("bold")>>)
         ELSE R(<<GetColor("italic")>>)
    ELSE R(<<Reset>>)

\* n.Text(source): the text of the node's Text children
NodeText(n) == Concat([i \in 1..Len(n.children) |-> n.children[i].value])

renderCodeSpan(p, ent) ==
    IF ent THEN R(HighlightInlineCode(NodeText(Node(p)))) ELSE R(<<>>)

\* the code of a code block: its lines written one after the other
CodeOf(n) == Concat(n.lines)
LanguageOf(n) == IF n.hasInfo THEN n.info ELSE <<>>

\* mutant: the highlighter's error returned to the walk
renderFencedCodeBlock_Propagate(p, ent, h) ==
    IF ent /\ h.err # nil THEN [out |-> <<>>, err |-> h.err]
    ELSE IF ent
    THEN R(<<NL>> \o Indent(TrimRight(h.s, {NL}), 1) \o <<NL, NL>>)
    ELSE R(<<>>)

\* h is what tr.highlighter.Highlight returned for the block
renderFencedCodeBlock(p, ent, h) ==
    IF ent
    THEN LET highlighted == IF h.err # nil THEN Style(CodeOf(Node(p)), "code")
                            ELSE h.s
         IN  R(<<NL>> \o Indent(TrimRight(highlighted, {NL}), 1) \o <<NL, NL>>)
    ELSE R(<<>>)

renderCodeBlock(p, ent) ==
    IF ent
    THEN LET styled == Style(CodeOf(Node(p)), "code")
         IN  R(<<NL>> \o Indent(TrimRight(styled, {NL}), 1) \o <<NL, NL>>)
    ELSE R(<<>>)

\* mutant: the leading newline written only after a previous sibling
renderBlockquote_Guarded(p, ent) ==
    IF ent
    THEN R((IF PreviousSibling(p) THEN <<NL>> ELSE <<>>)
           \o <<GetColor("blockquote"), "BAR", SP>>)
    ELSE R(<<Reset, NL, NL>>)

renderBlockquote(p, ent) ==
    IF ent THEN R(<<NL, GetColor("blockquote"), "BAR", SP>>)
    ELSE R(<<Reset, NL, NL>>)

renderList(p, ent) ==
    IF ent THEN R(IF PreviousSibling(p) THEN <<NL>> ELSE <<>>)
    ELSE R(IF NextSibling(p) THEN <<NL>> ELSE <<>>)

\* the level without the decrement
ListLevel_NotDecremented(p) ==
    Cardinality({i \in 0..(Len(p) - 1) : Kind(SubSeq(p, 1, i)) = "List"})

\* the level taken from the parent alone
ListLevel_ParentOnly(p) ==
    (IF Kind(Parent(p)) = "List" THEN 1 ELSE 0) - 1

\* the level of a list item: its List ancestors, less one
ListLevel(p) ==
    Cardinality({i \in 0..(Len(p) - 1) : Kind(SubSeq(p, 1, i)) = "List"}) - 1

\* renderListItem leaving a blank line after the item
renderListItem_BlankAfter(p, ent) ==
    IF ent
    THEN LET indent == Repeat(<<SP, SP>>, ListLevel(p))
             marker == IF Kind(Parent(p)) = "List" /\ Node(Parent(p)).ordered
                       THEN Style(<<"1", ".">>, "ordered")
                       ELSE Style(<<"BULLET">>, "bullet")
         IN  R(<<"NBSP">> \o indent \o marker \o <<SP>>)
    ELSE R(<<NL, NL>>)

renderListItem(p, ent) ==
    IF ent
    THEN LET indent == Repeat(<<SP, SP>>, ListLevel(p))
             marker == IF Kind(Parent(p)) = "List" /\ Node(Parent(p)).ordered
                       THEN Style(<<"1", ".">>, "ordered")
                       ELSE Style(<<"BULLET">>, "bullet")
         IN  R(<<"NBSP">> \o indent \o marker \o <<SP>>)
    ELSE R(<<NL>>)

renderLink(p, ent) ==
    IF ent THEN R(<<GetColor("link")>>)
    ELSE R(<<SP, "(">> \o Node(p).dest \o <<")">> \o <<Reset>>)

renderAutoLink(p, ent) ==
    IF ent THEN R(Style(Node(p).value, "link")) ELSE R(<<>>)

renderRawHTML(p, ent) == R(<<>>)

renderHTMLBlock(p, ent) == R(<<>>)

\* width of the horizontal rule
RuleWidth == 50
\* dashes of one separator segment
SegmentWidth == 15
\* spaces written after a table cell
CellPad == 14

renderThematicBreak(p, ent) ==
    IF ent
    THEN R(<<NL>> \o Style(Repeat(<<"DASH">>, RuleWidth), "table_border")
           \o <<NL, NL>>)
    ELSE R(<<>>)

renderTable(p, ent) == IF ent THEN R(<<NL>>) ELSE R(<<NL>>)

renderTableHeader(p, ent) == R(<<>>)

\* the separator line renderTableRow writes when its node is a TableHeader
HeaderSeparator(cellCount) ==
    <<GetColor("table_border")>>
    \o Concat([i \in 1..cellCount |->
                 <<"TEE_L">> \o Repeat(<<"DASH">>, SegmentWidth)
                 \o (IF i - 1 < cellCount - 1 THEN <<"CROSS">> ELSE <<>>)])
    \o <<"TEE_R", Reset, NL>>

renderTableRow(p, ent) ==
    IF ent THEN R(<<GetColor("table_border"), "BAR">>)
    ELSE R(<<Reset, NL>>
           \o (IF Kind(p) = "TableHeader"
               THEN HeaderSeparator(Len(Node(p).children))
               ELSE <<>>))

renderTableCell(p, ent) ==
    IF ent
    THEN R(<<SP>> \o (IF Kind(Parent(p)) = "TableHeader"
                      THEN <<GetColor("table_header")>> ELSE <<>>))
    ELSE R((IF Kind(Parent(p)) = "TableHeader" THEN <<Reset>> ELSE <<>>)
           \o Repeat(<<SP>>, CellPad)
           \o <<GetColor("table_border"), "BAR">>)

renderStrikethrough(p, ent) ==
    IF ent THEN R(<<GetColor("strikethrough")>>) ELSE R(<<Reset>>)

renderTaskCheckBox(p, ent) ==
    IF ent THEN R(Style(<<"[", SP, "]">>, "bullet") \o <<SP>>) ELSE R(<<>>)

\* the kinds renderNode has a case for
TypedKinds == {"Document", "Heading", "Paragraph", "Text", "Emphasis",
               "CodeSpan", "FencedCodeBlock", "CodeBlock", "Blockquote", "List",
               "ListItem", "Link", "AutoLink", "RawHTML", "ThematicBreak",
               "HTMLBlock"}
NamedKinds == {"Table", "TableHeader", "TableRow", "TableCell",
               "Strikethrough", "TaskCheckBox"}

\* the default branch refusing the node
renderUnknown_Fails(p, ent) ==
    [out |-> <<>>, err |-> <<"unsupported node kind">>]

\* the default branch of renderNode: no case of either switch matches
renderUnknown(p, ent) == R(<<>>)

\* renderNode: the type switch, then the switch on the kind's name
renderNode(p, ent, h) ==
    LET k == Kind(p)
    IN  CASE k = "Document" -> renderDocument(p, ent)
          [] k = "Heading" -> renderHeading(p, ent)
          [] k = "Paragraph" -> renderParagraph(p, ent)
          [] k = "Text" -> renderText(p, ent)
          [] k = "Emphasis" -> renderEmphasis(p, ent)
          [] k = "CodeSpan" -> renderCodeSpan(p, ent)
          [] k = "FencedCodeBlock" -> renderFencedCodeBlock(p, ent, h)
          [] k = "CodeBlock" -> renderCodeBlock(p, ent)
          [] k = "Blockquote" -> renderBlockquote(p, ent)
          [] k = "List" -> renderList(p, ent)
          [] k = "ListItem" -> renderListItem(p, ent)
          [] k = "Link" -> renderLink(p, ent)
          [] k = "AutoLink" -> renderAutoLink(p, ent)
          [] k = "RawHTML" -> renderRawHTML(p, ent)
          [] k = "ThematicBreak" -> renderThematicBreak(p, ent)
          [] k = "HTMLBlock" -> renderHTMLBlock(p, ent)
          [] k = "Table" -> renderTable(p, ent)
          [] k = "TableHeader" -> renderTableHeader(p, ent)
          [] k = "TableRow" -> renderTableRow(p, ent)
          [] k = "TableCell" -> renderTableCell(p, ent)
          [] k = "Strikethrough" -> renderStrikethrough(p, ent)
          [] k = "TaskCheckBox" -> renderTaskCheckBox(p, ent)
          [] OTHER -> renderUnknown(p, ent)

(***************************************************************************)
(* RenderContent: the walk, one callback at a time, then the               *)
(* post-processing.                                                        *)
(***************************************************************************)
\* the walker callback of render on the node under the walk, and ast.Walk's
\* move to the next callback: the first child after entering a node that has
\* children, else the node's own exit; after an exit the next sibling if
\* there is one, else the parent's exit; the walk returns after the root's
\* exit, or at once with the error of a callback
VisitWith(r, h) ==
    /\ pc = "walk"
    /\ LET node == Node(path)
       IN  /\ buf' = buf \o r.out
           /\ events' = Append(events,
                  [path |-> path, entering |-> entering, kind |-> Kind(path),
                   out |-> r.out, hlerr |-> h.err # nil, h |-> h,
                   err |-> r.err])
           /\ IF r.err # nil
              THEN /\ pc' = "post"
                   /\ werr' = r.err
                   /\ UNCHANGED <<path, entering>>
              ELSE IF entering
              THEN /\ IF Len(node.children) > 0
                      THEN path' = Append(path, 1) /\ entering' = TRUE
                      ELSE path' = path /\ entering' = FALSE
                   /\ UNCHANGED <<pc, werr>>
              ELSE IF path = <<>>
              THEN /\ pc' = "post"
                   /\ UNCHANGED <<path, entering, werr>>
              ELSE /\ IF NextSibling(path)
                      THEN /\ path' = Append(Parent(path), path[Len(path)] + 1)
                           /\ entering' = TRUE
                      ELSE /\ path' = Parent(path)
                           /\ entering' = FALSE
                   /\ UNCHANGED <<pc, werr>>
    /\ UNCHANGED <<bg, doc, result, rerr>>
    /\ UNCHANGED normVars
    /\ UNCHANGED sideVars

\* the callback with the result of renderNode
Visit(h) == VisitWith(renderNode(path, entering, h), h)

RenderDocument ==
    /\ pc = "walk" /\ Kind(path) = "Document"
    /\ Visit(NoHighlight)
RenderHeading ==
    /\ pc = "walk" /\ Kind(path) = "Heading"
    /\ Visit(NoHighlight)
RenderParagraph ==
    /\ pc = "walk" /\ Kind(path) = "Paragraph"
    /\ Visit(NoHighlight)
RenderText ==
    /\ pc = "walk" /\ Kind(path) = "Text"
    /\ Visit(NoHighlight)
RenderEmphasis ==
    /\ pc = "walk" /\ Kind(path) = "Emphasis"
    /\ Visit(NoHighlight)
RenderCodeSpan ==
    /\ pc = "walk" /\ Kind(path) = "CodeSpan"
    /\ Visit(NoHighlight)
RenderFencedCodeBlock ==
    /\ pc = "walk"
    /\ Kind(path) = "FencedCodeBlock"
    /\ IF entering
       THEN \E h \in HighlightOutcomes(CodeOf(Node(path)), LanguageOf(Node(path))) :
                Visit(h)
       ELSE Visit(NoHighlight)
RenderCodeBlock ==
    /\ pc = "walk" /\ Kind(path) = "CodeBlock"
    /\ Visit(NoHighlight)
RenderBlockquote ==
    /\ pc = "walk" /\ Kind(path) = "Blockquote"
    /\ Visit(NoHighlight)
RenderList ==
    /\ pc = "walk" /\ Kind(path) = "List"
    /\ Visit(NoHighlight)
RenderListItem ==
    /\ pc = "walk" /\ Kind(path) = "ListItem"
    /\ Visit(NoHighlight)
RenderLink ==
    /\ pc = "walk" /\ Kind(path) = "Link"
    /\ Visit(NoHighlight)
RenderAutoLink ==
    /\ pc = "walk" /\ Kind(path) = "AutoLink"
    /\ Visit(NoHighlight)
RenderRawHTML ==
    /\ pc = "walk" /\ Kind(path) = "RawHTML"
    /\ Visit(NoHighlight)
RenderThematicBreak ==
    /\ pc = "walk" /\ Kind(path) = "ThematicBreak"
    /\ Visit(NoHighlight)
RenderHTMLBlock ==
    /\ pc = "walk" /\ Kind(path) = "HTMLBlock"
    /\ Visit(NoHighlight)
RenderTable ==
    /\ pc = "walk" /\ Kind(path) = "Table"
    /\ Visit(NoHighlight)
RenderTableHeader ==
    /\ pc = "walk" /\ Kind(path) = "TableHeader"
    /\ Visit(NoHighlight)
RenderTableRow ==
    /\ pc = "walk" /\ Kind(path) = "TableRow"
    /\ Visit(NoHighlight)
RenderTableCell ==
    /\ pc = "walk" /\ Kind(path) = "TableCell"
    /\ Visit(NoHighlight)
RenderStrikethrough ==
    /\ pc = "walk" /\ Kind(path) = "Strikethrough"
    /\ Visit(NoHighlight)
RenderTaskCheckBox ==
    /\ pc = "walk" /\ Kind(path) = "TaskCheckBox"
    /\ Visit(NoHighlight)
\* a node of a kind renderNode has no case for
RenderUnknown ==
    /\ pc = "walk"
    /\ Kind(path) \notin TypedKinds \cup NamedKinds
    /\ Visit(NoHighlight)

\* mutant: the two steps in the other order
Normalize_Swapped(s) == TrimTrailingWhitespace(EnsureTrailingNewline(s))

\* the post-processing of RenderContent
Normalize(s) == EnsureTrailingNewline(TrimTrailingWhitespace(s))

\* RenderContent after render has returned
\* RenderContent handing the walk's error on as it is
RenderContentReturn_Unwrapped(b, e) ==
    IF e # nil THEN [result |-> <<>>, err |-> e]
    ELSE [result |-> Normalize(b), err |-> nil]

\* what RenderContent returns for the buffer b and the walk's error e
RenderContentReturn(b, e) ==
    IF e # nil
    THEN [result |-> <<>>, err |-> <<"failed to render markdown">> \o e]
    ELSE [result |-> Normalize(b), err |-> nil]

Finish ==
    /\ pc = "post"
    /\ pc' = "done"
    /\ result' = RenderContentReturn(buf, werr).result
    /\ rerr' = RenderContentReturn(buf, werr).err
    /\ UNCHANGED <<bg, doc, path, entering, buf, events, werr>>
    /\ UNCHANGED normVars
    /\ UNCHANGED sideVars

\* no direct call, no viewer call, no run of the command, no second goroutine
NoCall == [fn |-> "none", code |-> <<>>, language |-> <<>>, chroma |-> "ok",
           key |-> ""]
NoViewer == [pc |-> "idle", content |-> <<>>, less |-> FALSE, goos |-> "linux",
             out |-> <<>>, pager |-> FALSE, status |-> 0, err |-> nil,
             proc |-> "none", writer |-> "none", stdin |-> "none",
             wrote |-> 0, read |-> 0, wfail |-> FALSE]
NoCli == [pc |-> "idle", file |-> "none", vim |-> FALSE, out |-> <<>>,
          err |-> nil, exit |-> -1]
NoOther == [doc |-> Mk("Document", <<>>), path |-> <<>>, entering |-> TRUE,
            buf |-> <<>>, events |-> <<>>, pc |-> "idle", werr |-> nil,
            result |-> <<>>, rerr |-> nil]
SideIdle ==
    /\ call = NoCall
    /\ ret = <<>>
    /\ cpc = "idle"
    /\ viewer = NoViewer
    /\ cli = NoCli
    /\ other = NoOther

Init ==
    /\ bg \in BackgroundTypes
    /\ doc \in {Mk("Document", d) : d \in Docs}
    /\ path = <<>>
    /\ entering = TRUE
    /\ buf = <<>>
    /\ events = <<>>
    /\ pc = "walk"
    /\ werr = nil
    /\ result = <<>>
    /\ rerr = nil
    /\ text = <<>>
    /\ once = <<>>
    /\ twice = <<>>
    /\ npc = "idle"
    /\ SideIdle

Next ==
    \/ RenderDocument
    \/ RenderHeading
    \/ RenderParagraph
    \/ RenderText
    \/ RenderEmphasis
    \/ RenderCodeSpan
    \/ RenderFencedCodeBlock
    \/ RenderCodeBlock
    \/ RenderBlockquote
    \/ RenderList
    \/ RenderListItem
    \/ RenderLink
    \/ RenderAutoLink
    \/ RenderRawHTML
    \/ RenderThematicBreak
    \/ RenderHTMLBlock
    \/ RenderTable
    \/ RenderTableHeader
    \/ RenderTableRow
    \/ RenderTableCell
    \/ RenderStrikethrough
    \/ RenderTaskCheckBox
    \/ RenderUnknown
    \/ Finish

Spec == Init /\ [][Next]_vars

(***************************************************************************)
(* The walk when the node handler called by the callback returns an error: *)
(* the branch err != nil of render and of RenderContent.  The handlers of  *)
(* renderNode all return nil, so the error is put in the place of the      *)
(* handler's result, after the handler wrote nothing or one character.     *)
(***************************************************************************)
HandlerError == <<"handler failed">>

HandlerFails ==
    /\ pc = "walk"
    /\ \E out \in {<<>>, <<"p">>} :
          VisitWith([out |-> out, err |-> HandlerError], NoHighlight)

HandlerErrorNext == Next \/ HandlerFails

SpecHandlerError == Init /\ [][HandlerErrorNext]_vars

(***************************************************************************)
(* The post-processing functions on their own, on every short string.      *)
(***************************************************************************)
Alphabet == {"a", SP, TAB, NL}

NormInit ==
    /\ text \in SeqsUpTo(Alphabet, MaxLen)
    /\ once = <<>>
    /\ twice = <<>>
    /\ npc = "in"
    /\ bg = "dark"
    /\ doc = Mk("Document", <<>>)
    /\ path = <<>>
    /\ entering = TRUE
    /\ buf = <<>>
    /\ events = <<>>
    /\ pc = "idle"
    /\ werr = nil
    /\ result = <<>>
    /\ rerr = nil
    /\ SideIdle

\* the post-processing applied to the input
NormOnce ==
    /\ npc = "in"
    /\ once' = Normalize(text)
    /\ npc' = "once"
    /\ UNCHANGED <<text, twice>>
    /\ UNCHANGED renderVars
    /\ UNCHANGED sideVars

\* the post-processing applied to its own result
NormTwice ==
    /\ npc = "once"
    /\ twice' = Normalize(once)
    /\ npc' = "twice"
    /\ UNCHANGED <<text, once>>
    /\ UNCHANGED renderVars
    /\ UNCHANGED sideVars

NormNext == NormOnce \/ NormTwice

SpecNorm == NormInit /\ [][NormNext]_vars

(***************************************************************************)
(* The highlighter called directly, on every short code string.            *)
(***************************************************************************)
\* no RenderContent call and no post-processing call is in progress
RenderIdle ==
    /\ doc = Mk("Document", <<>>)
    /\ path = <<>>
    /\ entering = TRUE
    /\ buf = <<>>
    /\ events = <<>>
    /\ pc = "idle"
    /\ werr = nil
    /\ result = <<>>
    /\ rerr = nil
NormIdle ==
    /\ text = <<>>
    /\ once = <<>>
    /\ twice = <<>>
    /\ npc = "idle"

CodeAlphabet == {"x", SP, NL}
LanguageHints ==
    {<<>>, <<"g", "o">>, <<SP, "G", "o", SP>>, <<"j", "s">>, <<"c", "+", "+">>,
     <<"z", "z">>}

HighlightInit ==
    /\ bg \in BackgroundTypes
    /\ call \in [fn : {"Highlight", "HighlightCode"},
                 code : SeqsUpTo(CodeAlphabet, MaxLen),
                 language : LanguageHints,
                 chroma : ChromaOutcomes,
                 key : {""}]
    /\ ret = <<>>
    /\ cpc = "called"
    /\ viewer = NoViewer
    /\ cli = NoCli
    /\ other = NoOther
    /\ RenderIdle
    /\ NormIdle

\* whether ChromaHelper.Highlight succeeds in the call
ChromaOk ==
    ChromaHelperHighlight(call.code, normalizeLanguage(call.language),
                          call.chroma).err = nil

CallHighlight ==
    /\ cpc = "called" /\ call.fn = "Highlight"
    /\ ret' = Highlight(call.code, call.language, ChromaOk)
    /\ cpc' = "returned"
    /\ UNCHANGED <<renderVars, normVars, call, viewer, cli, other>>

CallHighlightCode ==
    /\ cpc = "called" /\ call.fn = "HighlightCode"
    /\ ret' = HighlightCode(call.code, call.language, ChromaOk)
    /\ cpc' = "returned"
    /\ UNCHANGED <<renderVars, normVars, call, viewer, cli, other>>

HighlightNext == CallHighlight \/ CallHighlightCode

SpecHighlight == HighlightInit /\ [][HighlightNext]_vars

(***************************************************************************)
(* The theme manager asked for the color of a key.                         *)
(***************************************************************************)
\* keys that are no style role
UnknownKeys == {"", "unknown", "Header1", "header7", "RESET", "table"}

ThemeInit ==
    /\ bg \in BackgroundTypes
    /\ call \in [fn : {"GetColor"}, code : {<<>>}, language : {<<>>},
                 chroma : {"ok"}, key : ColorKeys \cup UnknownKeys]
    /\ ret = <<>>
    /\ cpc = "called"
    /\ viewer = NoViewer
    /\ cli = NoCli
    /\ other = NoOther
    /\ RenderIdle
    /\ NormIdle

CallGetColor ==
    /\ cpc = "called" /\ call.fn = "GetColor"
    /\ ret' = GetColor(call.key)
    /\ cpc' = "returned"
    /\ UNCHANGED <<renderVars, normVars, call, viewer, cli, other>>

ThemeNext == CallGetColor

SpecTheme == ThemeInit /\ [][ThemeNext]_vars

(***************************************************************************)
(* internal/viewer: DisplayInVimMode, the fallback display and the pager.  *)
(* viewer.out is what the call printed on standard output; viewer.pager    *)
(* says whether less was started, with the content on its standard input.  *)
(***************************************************************************)
FallbackRuleWidth == 80
FallbackNote ==
    <<"Note: 'less' command not available, displaying content directly:">>
FallbackPrompt == <<"Press Enter to continue...">>
GOOS == {"linux", "darwin", "windows"}

\* strings.HasSuffix(s, "\n")
HasNewlineSuffix(s) == s # <<>> /\ s[Len(s)] = NL

\* DisplayInVimMode going on to the display whatever the content
DisplayInVimMode_NoEmptyCheck(content, lessAvailable) ==
    IF ~lessAvailable THEN "fallback" ELSE "pager"

\* the branch DisplayInVimMode takes
DisplayInVimMode(content, lessAvailable) ==
    IF content = <<>> THEN "error"
    ELSE IF ~lessAvailable THEN "fallback"
    ELSE "pager"

\* what fallbackDisplay prints before the prompt
fallbackDisplay(content) ==
    FallbackNote \o <<NL>>
    \o Repeat(<<"-">>, FallbackRuleWidth) \o <<NL>>
    \o content
    \o (IF ~HasNewlineSuffix(content) THEN <<NL>> ELSE <<>>)
    \o Repeat(<<"-">>, FallbackRuleWidth) \o <<NL>>

ViewerUnchanged == UNCHANGED <<renderVars, normVars, callVars, cli, other>>

ViewerDisplayInVimMode ==
    /\ viewer.pc = "called"
    /\ LET to == DisplayInVimMode(viewer.content, viewer.less)
       IN  viewer' = IF to = "error"
                     THEN [viewer EXCEPT !.pc = "returned",
                                         !.err = <<"no content to display">>]
                     ELSE [viewer EXCEPT !.pc = to]
    /\ ViewerUnchanged

ViewerFallbackDisplay ==
    /\ viewer.pc = "fallback"
    /\ viewer' = [viewer EXCEPT
                    !.out = @ \o fallbackDisplay(viewer.content)
                              \o (IF viewer.goos = "windows"
                                  THEN FallbackPrompt ELSE <<>>),
                    !.pc = IF viewer.goos = "windows" THEN "scanln"
                           ELSE "returned"]
    /\ ViewerUnchanged

\* fmt.Scanln returns when the user has pressed Enter
ViewerScanln ==
    /\ viewer.pc = "scanln"
    /\ viewer' = [viewer EXCEPT !.pc = "returned"]
    /\ ViewerUnchanged

\* the characters the pipe to less holds before a write blocks
PipeBuffer == 8

Min(a, b) == IF a < b THEN a ELSE b

\* Pager.Display up to the go statement: without a path it fails at once,
\* the pipe or the start may fail, else less runs and the writer is started
ViewerPagerStart ==
    /\ viewer.pc = "pager"
    /\ \E started \in {"pipe failed", "start failed", "ok"} :
          viewer' = CASE ~viewer.less ->
                           [viewer EXCEPT !.pc = "returned",
                               !.err = <<"less command not available">>]
                      [] started = "pipe failed" ->
                           [viewer EXCEPT !.pc = "returned",
                               !.err = <<"failed to create stdin pipe">>]
                      [] started = "start failed" ->
                           [viewer EXCEPT !.pc = "returned", !.stdin = "closed",
                               !.err = <<"failed to start less">>]
                      [] OTHER ->
                           [viewer EXCEPT !.pc = "wait", !.pager = TRUE,
                               !.proc = "running", !.stdin = "open",
                               !.writer = "writing"]
    /\ ViewerUnchanged

\* the writer goroutine in stdin.Write: the pipe takes what it has room for
WriterWrite ==
    /\ viewer.writer = "writing"
    /\ viewer.proc = "running" /\ viewer.stdin = "open"
    /\ viewer.wrote < Len(viewer.content)
    /\ viewer.wrote - viewer.read < PipeBuffer
    /\ viewer' = [viewer EXCEPT
                    !.wrote = Min(Len(viewer.content),
                                  viewer.read + PipeBuffer)]
    /\ ViewerUnchanged

\* stdin.Write returns: all is written, or the pipe is broken because less
\* has exited or cmd.Wait has closed it
WriterWriteReturns ==
    /\ viewer.writer = "writing"
    /\ \/ viewer.wrote = Len(viewer.content)
       \/ viewer.proc = "exited"
       \/ viewer.stdin = "closed"
    /\ viewer' = [viewer EXCEPT
                    !.writer = "wrote",
                    !.wfail = viewer.wrote < Len(viewer.content)]
    /\ ViewerUnchanged

\* the deferred stdin.Close of the writer goroutine
WriterClose ==
    /\ viewer.writer = "wrote"
    /\ viewer' = [viewer EXCEPT !.writer = "closed", !.stdin = "closed"]
    /\ ViewerUnchanged

\* less reads what the pipe holds
LessRead ==
    /\ viewer.proc = "running"
    /\ viewer.read < viewer.wrote
    /\ viewer' = [viewer EXCEPT !.read = viewer.wrote]
    /\ ViewerUnchanged

\* the exit status of less: -1 when a signal ended it
LessStatuses == {-1, 0, 1, 2}

\* less exits: the user quits, it fails, or a signal ends it
LessExit ==
    /\ viewer.proc = "running"
    /\ \E status \in LessStatuses :
          viewer' = [viewer EXCEPT !.proc = "exited", !.status = status]
    /\ ViewerUnchanged

\* the error Display returns for the exit status cmd.Wait reports
WaitError(status) ==
    IF status = 0 THEN nil
    ELSE IF status <= 1 THEN nil
    ELSE <<"less command failed">>

\* Pager.Display from cmd.Wait on: Wait returns when less has exited, and
\* closes the pipe
ViewerPagerWait ==
    /\ viewer.pc = "wait"
    /\ viewer.proc = "exited"
    /\ viewer' = [viewer EXCEPT !.pc = "returned", !.stdin = "closed",
                                !.err = WaitError(viewer.status)]
    /\ ViewerUnchanged

\* the length of the longest content DisplayInVimMode is called with
MaxContent == 20

\* the contents DisplayInVimMode is called with: every short one, and long
\* ones that fill the pipe
ViewerAlphabet == {"a", NL}
ViewerContents ==
    SeqsUpTo(ViewerAlphabet, MaxLen)
        \cup {Repeat(<<"a">>, n) : n \in 1..MaxContent}

ViewerInit ==
    /\ bg = "dark"
    /\ viewer \in {[NoViewer EXCEPT !.pc = "called", !.content = c,
                                    !.less = l, !.goos = g] :
                      c \in ViewerContents, l \in BOOLEAN,
                      g \in GOOS}
    /\ call = NoCall
    /\ ret = <<>>
    /\ cpc = "idle"
    /\ cli = NoCli
    /\ other = NoOther
    /\ RenderIdle
    /\ NormIdle

ViewerNext ==
    \/ ViewerDisplayInVimMode
    \/ ViewerFallbackDisplay
    \/ ViewerScanln
    \/ ViewerPagerStart
    \/ WriterWrite
    \/ WriterWriteReturns
    \/ WriterClose
    \/ LessRead
    \/ LessExit
    \/ ViewerPagerWait

SpecViewer == ViewerInit /\ [][ViewerNext]_vars

(***************************************************************************)
(* cmd/md: one run of the command on a file.  cli.file says what the file  *)
(* system holds at the path, cli.out what RunE printed itself, cli.err the *)
(* error RunE returned, cli.exit the exit status (-1 while running).       *)
(***************************************************************************)
FileStates == {"unresolvable", "missing", "unreadable", "readable"}

\* the documents of the files the command is run on
CliDocs == SeqsUpTo(CoreBlocks, 1) \cup SpecialDocs

\* main exiting with status 0 whatever Execute returned
ExitStatus_AlwaysZero(err) == 0

\* the exit status main gives for the error of rootCmd.Execute
ExitStatus(err) == IF err # nil THEN 1 ELSE 0

CliUnchanged == UNCHANGED <<normVars, callVars, other>>
RenderUnchanged ==
    UNCHANGED <<bg, doc, path, entering, buf, events, pc, werr, result, rerr>>

\* filepath.Abs and os.Stat
CliStat ==
    /\ cli.pc = "stat"
    /\ cli' = CASE cli.file = "unresolvable" ->
                     [cli EXCEPT !.pc = "exit",
                                 !.err = <<"error resolving file path">>]
                [] cli.file = "missing" ->
                     [cli EXCEPT !.pc = "exit", !.err = <<"file not found">>]
                [] OTHER -> [cli EXCEPT !.pc = "read"]
    /\ UNCHANGED viewer
    /\ RenderUnchanged
    /\ CliUnchanged

\* the constructors, then RenderFile up to the call of RenderContent
CliReadFile ==
    /\ cli.pc = "read"
    /\ IF cli.file = "readable"
       THEN /\ cli' = [cli EXCEPT !.pc = "render"]
            /\ pc' = "walk"
       ELSE /\ cli' = [cli EXCEPT !.pc = "exit",
                           !.err = <<"rendering error", "failed to read file">>]
            /\ pc' = pc
    /\ UNCHANGED viewer
    /\ UNCHANGED <<bg, doc, path, entering, buf, events, werr, result, rerr>>
    /\ CliUnchanged

\* renderAndDisplay once RenderFile has returned
CliDisplay ==
    /\ cli.pc = "render" /\ pc = "done"
    /\ IF rerr # nil
       THEN /\ cli' = [cli EXCEPT !.pc = "exit",
                                  !.err = <<"rendering error">> \o rerr]
            /\ UNCHANGED viewer
       ELSE IF cli.vim
       THEN /\ cli' = [cli EXCEPT !.pc = "view"]
            /\ viewer' = [viewer EXCEPT !.pc = "called", !.content = result]
       ELSE /\ cli' = [cli EXCEPT !.pc = "exit", !.out = @ \o result]
            /\ UNCHANGED viewer
    /\ RenderUnchanged
    /\ CliUnchanged

\* DisplayInVimMode has returned
CliViewed ==
    /\ cli.pc = "view" /\ viewer.pc = "returned"
    /\ cli' = [cli EXCEPT !.pc = "exit", !.err = viewer.err]
    /\ UNCHANGED viewer
    /\ RenderUnchanged
    /\ CliUnchanged

\* main after rootCmd.Execute
CliExit ==
    /\ cli.pc = "exit"
    /\ cli' = [cli EXCEPT !.pc = "exited", !.exit = ExitStatus(cli.err)]
    /\ UNCHANGED viewer
    /\ RenderUnchanged
    /\ CliUnchanged

CliInit ==
    /\ bg \in BackgroundTypes
    /\ cli \in [pc : {"stat"}, file : FileStates, vim : BOOLEAN, out : {<<>>},
                err : {nil}, exit : {-1}]
    /\ viewer \in {[NoViewer EXCEPT !.less = l, !.goos = g] :
                      l \in BOOLEAN, g \in GOOS}
    /\ ~cli.vim => ~viewer.less /\ viewer.goos = "linux"
    /\ doc \in {Mk("Document", d) : d \in CliDocs}
    /\ cli.file # "readable" => doc = Mk("Document", <<>>)
    /\ path = <<>>
    /\ entering = TRUE
    /\ buf = <<>>
    /\ events = <<>>
    /\ pc = "idle"
    /\ werr = nil
    /\ result = <<>>
    /\ rerr = nil
    /\ call = NoCall
    /\ ret = <<>>
    /\ cpc = "idle"
    /\ other = NoOther
    /\ NormIdle

CliNext ==
    \/ CliStat
    \/ CliReadFile
    \/ Next
    \/ CliDisplay
    \/ ViewerNext
    \/ CliViewed
    \/ CliExit

SpecCli == CliInit /\ [][CliNext]_vars

(***************************************************************************)
(* Two RenderContent calls on one Renderer, in two goroutines.  The call   *)
(* of the goroutine that runs is held by the variables of the walk, the    *)
(* call of the goroutine that waits by the variable other; the scheduler   *)
(* may switch the two between any two callbacks.  The ThemeManager (bg)    *)
(* and the highlighter belong to both calls.                               *)
(***************************************************************************)
\* the documents of the two calls: between them, a node of every kind
ConcDocs ==
    { <<RichParagraph>>,
      <<NestedList>>,
      <<Heading(1, <<Text(<<"T">>)>>),
        Mk("Blockquote", <<Paragraph(<<Text(<<"q">>)>>)>>),
        FencedCodeBlock(TRUE, <<"g", "o">>, <<<<"x", NL>>>>),
        CodeBlock(<<<<"y", NL>>>>)>>,
      <<Mk("ThematicBreak", <<>>), Mk("HTMLBlock", <<>>), Table(1, 1)>> }

\* doc, termRenderer's walk and buf of the running call: locals of
\* RenderContent
Running ==
    [doc |-> doc, path |-> path, entering |-> entering, buf |-> buf,
     events |-> events, pc |-> pc, werr |-> werr, result |-> result,
     rerr |-> rerr]

\* both calls writing to one buffer
BufferOf_Shared(own, running) == running

\* the buffer a call writes to: its own, declared in RenderContent
BufferOf(own, running) == own

\* the scheduler runs the other goroutine
Switch ==
    /\ other.pc # "idle"
    /\ other' = Running
    /\ doc' = other.doc
    /\ path' = other.path
    /\ entering' = other.entering
    /\ buf' = BufferOf(other.buf, buf)
    /\ events' = other.events
    /\ pc' = other.pc
    /\ werr' = other.werr
    /\ result' = other.result
    /\ rerr' = other.rerr
    /\ UNCHANGED <<bg, normVars, callVars, viewer, cli>>

ConcInit ==
    /\ bg \in BackgroundTypes
    /\ doc \in {Mk("Document", d) : d \in ConcDocs}
    /\ path = <<>>
    /\ entering = TRUE
    /\ buf = <<>>
    /\ events = <<>>
    /\ pc = "walk"
    /\ werr = nil
    /\ result = <<>>
    /\ rerr = nil
    /\ other \in {[NoOther EXCEPT !.doc = Mk("Document", d), !.pc = "walk"] :
                     d \in ConcDocs}
    /\ call = NoCall
    /\ ret = <<>>
    /\ cpc = "idle"
    /\ viewer = NoViewer
    /\ cli = NoCli
    /\ NormIdle

ConcNext == Next \/ Switch

SpecConc == ConcInit /\ [][ConcNext]_vars

(***************************************************************************)
(* internal/theme: the detection of the terminal background in New.  The   *)
(* environment is the value of COLORFGBG, whether one of the dark or light *)
(* indicators is set, and the operating system.                            *)
(***************************************************************************)
\* the byte of a character of a COLORFGBG value
CharCode(t) ==
    CASE t = "0" -> 48 [] t = "1" -> 49 [] t = "2" -> 50 [] t = "3" -> 51
      [] t = "4" -> 52 [] t = "5" -> 53 [] t = "6" -> 54 [] t = "7" -> 55
      [] t = "8" -> 56 [] t = "9" -> 57 [] t = ";" -> 59 [] OTHER -> 120

\* a <= b for Go strings: byte by byte, a prefix before its extensions
RECURSIVE StringLeq(_, _)
StringLeq(a, b) ==
    IF a = <<>> THEN TRUE
    ELSE IF b = <<>> THEN FALSE
    ELSE IF CharCode(a[1]) # CharCode(b[1]) THEN CharCode(a[1]) < CharCode(b[1])
    ELSE StringLeq(Tail(a), Tail(b))

\* the platform functions all return BackgroundDark
detectPlatformBackground(goos) == "dark"

\* DetectTerminalBackground; darkEnv and lightEnv are the results of
\* isDarkThemeEnvironment and isLightThemeEnvironment
DetectTerminalBackground(env) ==
    LET parts == Split(env.colorfgbg, ";")
        last == parts[Len(parts)]
    IN  IF env.colorfgbg # <<>> /\ Len(parts) >= 2
           /\ StringLeq(<<"0">>, last) /\ StringLeq(last, <<"7">>)
        THEN "dark"
        ELSE IF env.colorfgbg # <<>> /\ Len(parts) >= 2
                /\ StringLeq(<<"8">>, last) /\ StringLeq(last, <<"1", "5">>)
        THEN "light"
        ELSE IF env.darkEnv THEN "dark"
        ELSE IF env.lightEnv THEN "light"
        ELSE detectPlatformBackground(env.goos)

ColorFgBgAlphabet == {"0", "1", "5", "8", ";"}

DetectInit ==
    /\ bg = "unknown"
    /\ call \in [fn : {"New"},
                 colorfgbg : SeqsUpTo(ColorFgBgAlphabet, MaxLen),
                 darkEnv : BOOLEAN, lightEnv : BOOLEAN,
                 goos : {"linux", "freebsd"}]
    /\ ret = <<>>
    /\ cpc = "called"
    /\ viewer = NoViewer
    /\ cli = NoCli
    /\ other = NoOther
    /\ RenderIdle
    /\ NormIdle

\* theme.New: the detected background becomes the manager's
CallNew ==
    /\ cpc = "called" /\ call.fn = "New"
    /\ ret' = DetectTerminalBackground(call)
    /\ bg' = DetectTerminalBackground(call)
    /\ cpc' = "returned"
    /\ UNCHANGED <<doc, path, entering, buf, events, pc, werr, result, rerr>>
    /\ UNCHANGED <<normVars, call, viewer, cli, other>>

DetectNext == CallNew

SpecDetect == DetectInit /\ [][DetectNext]_vars

(***************************************************************************)
(* renderText called on a Text node of every short value and every         *)
(* combination of its flags, as the only child of a paragraph.             *)
(***************************************************************************)
TextNodes ==
    {[Text(v) EXCEPT !.soft = f[1], !.hard = f[2], !.raw = f[3]] :
        v \in SeqsUpTo({"a", NL}, MaxLen), f \in BOOLEAN \X BOOLEAN \X BOOLEAN}

TextInit ==
    /\ bg = "dark"
    /\ doc \in {Mk("Document", <<Paragraph(<<t>>)>>) : t \in TextNodes}
    /\ path = <<1, 1>>
    /\ entering = TRUE
    /\ buf = <<>>
    /\ events = <<>>
    /\ pc = "idle"
    /\ werr = nil
    /\ result = <<>>
    /\ rerr = nil
    /\ call = [NoCall EXCEPT !.fn = "renderText"]
    /\ ret = <<>>
    /\ cpc = "called"
    /\ viewer = NoViewer
    /\ cli = NoCli
    /\ other = NoOther
    /\ NormIdle

\* the enter callback of the Text node
CallRenderTextEnter ==
    /\ cpc = "called" /\ call.fn = "renderText"
    /\ ret' = <<renderText(path, TRUE)>>
    /\ cpc' = "entered"
    /\ UNCHANGED <<renderVars, normVars, call, viewer, cli, other>>

\* the exit callback of the Text node
CallRenderTextExit ==
    /\ cpc = "entered" /\ call.fn = "renderText"
    /\ ret' = Append(ret, renderText(path, FALSE))
    /\ cpc' = "returned"
    /\ UNCHANGED <<renderVars, normVars, call, viewer, cli, other>>

TextNext == CallRenderTextEnter \/ CallRenderTextExit

SpecText == TextInit /\ [][TextNext]_vars

(***************************************************************************)
(* Vocabulary of the properties.                                           *)
(***************************************************************************)
Last(s) == s[Len(s)]
LinesOf(s) == Split(s, NL)
CountTok(s, t) == Cardinality({i \in 1..Len(s) : s[i] = t})

\* the top-level blocks of the document
Blocks == doc.children
NodeCount == Cardinality(PathsFrom(<<>>))

\* some line of s ends with a space or a tab
TrailingWhitespace(s) ==
    \E i \in 1..Len(LinesOf(s)) :
        LinesOf(s)[i] # <<>> /\ Last(LinesOf(s)[i]) \in {SP, TAB}

\* s ends with a newline and with no more than one
OneTrailingNewline(s) ==
    /\ Len(s) >= 1 /\ Last(s) = NL
    /\ Len(s) >= 2 => s[Len(s) - 1] # NL

\* the render has returned without an error
Rendered == pc = "done" /\ rerr = nil

\* the index in events of the callback on the node at p
EventOf(p, ent) ==
    CHOOSE i \in 1..Len(events) : events[i].path = p /\ events[i].entering = ent
Dispatched(p, ent) ==
    \E i \in 1..Len(events) : events[i].path = p /\ events[i].entering = ent

(***************************************************************************)
(* Properties.                                                             *)
(***************************************************************************)

PlainParagraph(n) ==
    /\ n.kind = "Paragraph"
    /\ Len(n.children) = 1
    /\ n.children[1].kind = "Text"
    /\ n.children[1].value # <<>>

\* a document of a heading followed by a paragraph of plain text
HeadingThenParagraph ==
    /\ Len(Blocks) = 2
    /\ Blocks[1].kind = "Heading"
    /\ PlainParagraph(Blocks[2])

\* the line the paragraph's text makes
BodyLine == TextLines(Blocks[2].children[1])

\* C2 as stated: a heading followed by a paragraph renders as the styled
\* heading line, one blank line, the paragraph text, one trailing newline.
C2_BlankLineAfterHeading ==
    Rendered /\ HeadingThenParagraph =>
        /\ Len(LinesOf(result)) = 4
        /\ Head(LinesOf(result)[1]) \in StyleEscapes
        /\ LinesOf(result)[2] = <<>>
        /\ LinesOf(result)[3] = BodyLine
        /\ LinesOf(result)[4] = <<>>

\* C2 amended: a heading followed by a paragraph renders as the styled
\* heading line, then at once the paragraph text on the next line, then one
\* trailing newline; no blank line separates the two.
C2_HeadingThenParagraph ==
    Rendered /\ HeadingThenParagraph =>
        /\ Len(LinesOf(result)) = 3
        /\ Head(LinesOf(result)[1]) \in StyleEscapes
        /\ Last(LinesOf(result)[1]) = Reset
        /\ LinesOf(result)[2] = BodyLine
        /\ LinesOf(result)[3] = <<>>

\* C2 witness: a heading followed by a paragraph has been rendered.
C2_Witness == Rendered /\ HeadingThenParagraph /\ Blocks[1].level = 1

\* C3 as stated: the exit of a table's header row draws the separator line
\* once, and the exit of a body row draws none.
C3_SeparatorAfterHeaderOnly ==
    \A i \in 1..Len(events) :
        events[i].kind \in {"TableHeader", "TableRow"} /\ ~events[i].entering =>
            CountTok(events[i].out, "TEE_R")
                = (IF events[i].kind = "TableHeader" THEN 1 ELSE 0)

\* the escape left in force by a string: the last escape in it, when that is
\* not the reset
EscapesIn(s) == {i \in 1..Len(s) : s[i] \in Escapes}
LeavesStyleOn(s) == EscapesIn(s) # {} /\ s[Max(EscapesIn(s))] \in StyleEscapes

\* the callback that wrote the style in force at the end of the buffer
StyleOwner ==
    LET wrote == {j \in 1..Len(events) : EscapesIn(events[j].out) # {}}
    IN  IF wrote # {} /\ LeavesStyleOn(events[Max(wrote)].out)
        THEN [active |-> TRUE, path |-> events[Max(wrote)].path]
        ELSE [active |-> FALSE, path |-> <<>>]

\* C4 as stated: a node whose enter leaves a style in force writes the reset
\* on its exit, and when the walk enters a node that has a previous sibling
\* the only style that may be in force is one written by an ancestor.
C4_BalancedStyling ==
    /\ \A j \in 1..Len(events) :
           (~events[j].entering
            /\ LeavesStyleOn(events[EventOf(events[j].path, TRUE)].out))
               => CountTok(events[j].out, Reset) >= 1
    /\ (pc = "walk" /\ entering /\ PreviousSibling(path) /\ StyleOwner.active)
           => IsAncestor(StyleOwner.path, path)

\* a block that writes something other than a newline first and has no
\* newline before it when it comes first: a heading, a list, a paragraph
\* whose first inline node writes text or a style
StartsWithText(n) ==
    \/ n.kind \in {"Heading", "List"}
    \/ /\ n.kind = "Paragraph"
       /\ n.children # <<>>
       /\ n.children[1].kind \in {"Text", "Emphasis", "Strikethrough", "Link",
                                   "CodeSpan", "AutoLink"}
       /\ n.children[1].kind = "Text" => n.children[1].value # <<>>

\* the kinds whose enter writes a newline first, whatever comes before them
LeadingNewlineKinds ==
    {"Blockquote", "FencedCodeBlock", "CodeBlock", "ThematicBreak", "Table"}

\* C5 as stated: whatever the first and the last top-level block, the output
\* neither starts nor ends with a blank line.
C5_NoBlankLineAtEnds ==
    (Rendered /\ Blocks # <<>>
     /\ (StartsWithText(Blocks[1]) \/ Blocks[1].kind \in LeadingNewlineKinds))
        => Head(result) # NL /\ OneTrailingNewline(result)

\* C5 amended: the output never ends with a blank line, and it does not
\* start with one when the first block is a heading, a list or a paragraph
\* that begins with text; it starts with an empty line when the first block
\* is a blockquote, a code block, a thematic break or a table.
C5_BlankLineAtStart ==
    Rendered /\ Blocks # <<>> =>
        /\ OneTrailingNewline(result)
        /\ StartsWithText(Blocks[1]) => Head(result) # NL
        /\ Blocks[1].kind \in LeadingNewlineKinds => Head(result) = NL

\* C5 witness: a document that begins with a blockquote and ends with a code
\* block has been rendered.
C5_Witness ==
    /\ Rendered
    /\ Len(Blocks) >= 2
    /\ Blocks[1].kind = "Blockquote"
    /\ Blocks[Len(Blocks)].kind = "CodeBlock"

\* C6: the exit of a paragraph writes one newline, and a second one exactly
\* when the paragraph has a next sibling; between the text of two adjacent
\* top-level paragraphs the output holds two newlines, one blank line.
C6_ParagraphSpacing ==
    /\ \A i \in 1..Len(events) :
           events[i].kind = "Paragraph" /\ ~events[i].entering =>
               events[i].out = (IF NextSibling(events[i].path)
                                THEN <<NL, NL>> ELSE <<NL>>)
    /\ \A k \in 1..(Len(Blocks) - 1) :
           (/\ Blocks[k].kind = "Paragraph"
            /\ Blocks[k + 1].kind = "Paragraph"
            /\ Dispatched(<<k + 1, 1>>, TRUE))
               => LET a == EventOf(<<k, Len(Blocks[k].children)>>, FALSE)
                      b == EventOf(<<k + 1, 1>>, TRUE)
                  IN  Concat([i \in 1..(b - a - 1) |-> events[a + i].out])
                          = <<NL, NL>>
    /\ (Rendered /\ Len(Blocks) = 2 /\ PlainParagraph(Blocks[1])
        /\ PlainParagraph(Blocks[2]))
           => result = TextLines(Blocks[1].children[1]) \o <<NL, NL>>
                       \o TextLines(Blocks[2].children[1]) \o <<NL>>

\* C6 witness: two adjacent top-level paragraphs have been rendered.
C6_Witness ==
    /\ Rendered
    /\ Len(Blocks) = 2
    /\ PlainParagraph(Blocks[1]) /\ PlainParagraph(Blocks[2])

\* C7: the empty document renders as the single newline, with no error.
C7_EmptyDocument ==
    pc = "done" /\ Blocks = <<>> => result = <<NL>> /\ rerr = nil

\* C7 witness: the empty document has been rendered.
C7_Witness == pc = "done" /\ Blocks = <<>> /\ buf = <<>>

\* C8: the post-processing applied to its own result changes nothing.
C8_NormalizeIdempotent == npc = "twice" => twice = once

\* C8 witness: the post-processing has run twice on a text it changes: one
\* with a line ending in a space and with several trailing newlines.
C8_Witness ==
    /\ npc = "twice"
    /\ TrailingWhitespace(text)
    /\ Len(text) >= 2 /\ Last(text) = NL /\ text[Len(text) - 1] = NL
    /\ once # text

\* the glyphs of a line, its escapes left out
Glyphs(line) == SelectSeq(line, LAMBDA t : t \notin Escapes)

\* a separator line of n columns: n runs of SegmentWidth dashes, n-1 crosses,
\* one closing border glyph at the end
IsSeparatorLine(line, n) ==
    LET g == Glyphs(line)
        starts == {i \in 1..Len(g) : g[i] = "DASH" /\ (i = 1 \/ g[i - 1] # "DASH")}
    IN  /\ g # <<>>
        /\ Cardinality(starts) = n
        /\ CountTok(g, "DASH") = n * SegmentWidth
        /\ \A i \in starts :
               /\ i + SegmentWidth - 1 <= Len(g)
               /\ \A j \in i..(i + SegmentWidth - 1) : g[j] = "DASH"
        /\ CountTok(g, "CROSS") = n - 1
        /\ CountTok(g, "TEE_R") = 1
        /\ Last(g) = "TEE_R"

\* C9 as stated: the line that follows the header row of a table of n columns
\* is a separator line of n columns.
C9_SeparatorShape ==
    \A i \in 1..Len(events) :
        events[i].kind = "TableHeader" /\ ~events[i].entering =>
            \E k \in 1..Len(LinesOf(events[i].out)) :
                IsSeparatorLine(LinesOf(events[i].out)[k],
                                Len(Node(events[i].path).children))

\* C10: when Highlight returns an error for a fenced code block, the block is
\* written as its raw code in the Code style, no callback returns an error,
\* the walk goes on to the last node and RenderContent returns no error.
C10_HighlightErrorDegrades ==
    /\ \A i \in 1..Len(events) :
           events[i].hlerr =>
               events[i].out =
                   <<NL>>
                   \o Indent(TrimRight(Style(CodeOf(Node(events[i].path)), "code"),
                                       {NL}), 1)
                   \o <<NL, NL>>
    /\ werr = nil
    /\ pc = "done" => rerr = nil /\ Len(events) = 2 * NodeCount

\* C10 witness: a render has returned in which Highlight returned an error
\* for a block and a later node wrote its output.
C10_Witness ==
    /\ pc = "done"
    /\ \E i \in 1..Len(events) :
           /\ events[i].hlerr
           /\ \E j \in (i + 1)..Len(events) : events[j].out # <<>>

\* C11: Highlight and HighlightCode return a nil error for every code string
\* and every language hint; when the Chroma highlight fails on code that is
\* not blank, they return the code between the Code style and the reset
C11_HighlightNeverFails ==
    cpc = "returned" /\ call.fn \in {"Highlight", "HighlightCode"} =>
        /\ ret.err = nil
        /\ (call.chroma # "ok" /\ TrimSpace(call.code) # <<>> =>
               ret.s = <<GetColor("code")>> \o call.code \o <<GetColor("reset")>>)
C11_Witness ==
    /\ cpc = "returned" /\ call.fn = "HighlightCode"
    /\ call.chroma = "tokenise" /\ call.language = <<"z", "z">>
    /\ call.code = <<"x", NL>>
    /\ ret.err = nil /\ ret.s # call.code

\* the List nodes among the ancestors of the node at p
RECURSIVE ListAncestors(_)
ListAncestors(p) ==
    IF p = <<>> THEN 0
    ELSE (IF Kind(Parent(p)) = "List" THEN 1 ELSE 0) + ListAncestors(Parent(p))

\* the spaces written between the leading no-break space and the marker
IndentOf(out) ==
    Max({k \in 0..(Len(out) - 1) : \A i \in 2..(k + 1) : out[i] = SP})

ItemEnters == {i \in 1..Len(events) :
                 events[i].kind = "ListItem" /\ events[i].entering}

\* C12: a list item with d List ancestors is indented by 2*(d-1) spaces, and
\* an item of a list nested in another item is indented by more than that item
C12_NestedIndentation ==
    /\ \A i \in ItemEnters :
          /\ events[i].out[1] = "NBSP"
          /\ IndentOf(events[i].out) = 2 * (ListAncestors(events[i].path) - 1)
          /\ events[i].out[IndentOf(events[i].out) + 2] \in Escapes
    /\ \A i, j \in ItemEnters :
          IsAncestor(events[i].path, events[j].path) =>
              IndentOf(events[j].out) > IndentOf(events[i].out)
C12_Witness ==
    /\ pc = "done"
    /\ \E i, j \in ItemEnters :
          /\ IsAncestor(events[i].path, events[j].path)
          /\ ListAncestors(events[j].path) = 3
          /\ IndentOf(events[j].out) = 4
          /\ IndentOf(events[i].out) = 2

\* the document is one flat bullet list of two items of plain text
PlainItem(n) ==
    /\ n.kind = "ListItem" /\ Len(n.children) = 1
    /\ n.children[1].kind = "TextBlock" /\ Len(n.children[1].children) = 1
    /\ n.children[1].children[1].kind = "Text"
    /\ ~n.children[1].children[1].soft /\ ~n.children[1].children[1].hard
FlatBulletList ==
    /\ Len(Blocks) = 1
    /\ Blocks[1].kind = "List" /\ ~Blocks[1].ordered
    /\ Len(Blocks[1].children) = 2
    /\ \A i \in 1..2 : PlainItem(Blocks[1].children[i])
ItemText(i) == Blocks[1].children[i].children[1].children[1].value

\* s without its escape sequences
RECURSIVE Visible(_)
Visible(s) ==
    IF s = <<>> THEN <<>>
    ELSE (IF s[1] \in Escapes THEN <<>> ELSE <<s[1]>>) \o Visible(Tail(s))

\* C13 as stated: a flat bullet list of two items renders as two lines, each
\* beginning with the bullet glyph with nothing before it, each ended by one
\* newline, with no blank line between them
C13_BulletFirst ==
    pc = "done" /\ FlatBulletList =>
        /\ Len(LinesOf(result)) = 3 /\ LinesOf(result)[3] = <<>>
        /\ \A i \in 1..2 :
              /\ LinesOf(result)[i] # <<>>
              /\ Visible(LinesOf(result)[i])[1] = "BULLET"

\* C13: a flat bullet list of two items renders as two lines, each made of a
\* no-break space, the styled bullet glyph, the reset, a space and the item's
\* text, each ended by one newline, with no blank line between them
C13_FlatBulletList ==
    pc = "done" /\ FlatBulletList =>
        result = <<"NBSP", GetColor("bullet"), "BULLET", GetColor("reset"), SP>>
                 \o ItemText(1) \o <<NL>>
                 \o <<"NBSP", GetColor("bullet"), "BULLET", GetColor("reset"), SP>>
                 \o ItemText(2) \o <<NL>>
C13_Witness ==
    /\ pc = "done" /\ FlatBulletList
    /\ Len(LinesOf(result)) = 3
    /\ Visible(LinesOf(result)[1]) = <<"NBSP", "BULLET", SP, "a">>

\* C14: for every background type GetColor returns a non-empty escape
\* sequence for each of the 17 style roles and the reset sequence for every
\* other key
C14_GetColorTotal ==
    /\ Cardinality(ColorKeys) = 17
    /\ cpc = "returned" /\ call.fn = "GetColor" =>
          /\ ret # "" /\ ret \in Escapes
          /\ call.key \in ColorKeys =>
                ret = (IF bg = "light" THEN buildLightColorScheme
                       ELSE buildDarkColorScheme)[call.key]
          /\ call.key \notin ColorKeys => ret = "ESC[0m"
C14_Witness ==
    /\ cpc = "returned" /\ call.fn = "GetColor"
    /\ bg = "unknown" /\ call.key = "header7" /\ ret = "ESC[0m"

\* C15: after a callback whose handler returned an error no other callback
\* is dispatched, RenderContent returns that error behind the message
\* "failed to render markdown", and the buffer keeps all that was written
C15_ErrorAbortsWalk ==
    /\ \A i \in 1..(Len(events) - 1) : events[i].err = nil
    /\ buf = Concat([i \in 1..Len(events) |-> events[i].out])
    /\ werr # nil =>
          /\ pc \in {"post", "done"}
          /\ events[Len(events)].err = werr
    /\ pc = "done" =>
          rerr = (IF werr # nil THEN <<"failed to render markdown">> \o werr
                  ELSE nil)
C15_Witness ==
    /\ pc = "done" /\ werr = HandlerError
    /\ rerr = <<"failed to render markdown", "handler failed">>
    /\ Len(events) > 2 /\ Len(events) < 2 * NodeCount
    /\ buf # <<>> /\ Last(buf) = "p"

\* C17: DisplayInVimMode with empty content returns the error "no content to
\* display", never starts the pager and prints nothing; with content and
\* without less it prints the content between the two rules of the fallback
\* display, does not start the pager and returns nil
C17_DisplayInVimMode ==
    /\ viewer.pc # "idle" /\ viewer.content = <<>> =>
          /\ ~viewer.pager /\ viewer.out = <<>>
          /\ viewer.pc \in {"called", "returned"}
          /\ viewer.pc = "returned" => viewer.err = <<"no content to display">>
    /\ viewer.pc = "returned" /\ viewer.content # <<>> /\ ~viewer.less =>
          /\ viewer.err = nil /\ ~viewer.pager
          /\ viewer.out[1] =
                "Note: 'less' command not available, displaying content directly:"
          /\ SubSeq(viewer.out, 2, 83) = <<NL>> \o [i \in 1..80 |-> "-"] \o <<NL>>
          /\ SubSeq(viewer.out, 84, 83 + Len(viewer.content)) = viewer.content
          /\ LET rest == SubSeq(viewer.out, 84 + Len(viewer.content),
                                Len(viewer.out))
                 rule == [i \in 1..80 |-> "-"] \o <<NL>>
                 line == IF viewer.content[Len(viewer.content)] = NL
                         THEN rule ELSE <<NL>> \o rule
             IN  rest = IF viewer.goos = "windows"
                        THEN line \o FallbackPrompt ELSE line
C17_Witness ==
    /\ viewer.pc = "returned" /\ ~viewer.less /\ viewer.err = nil
    /\ viewer.content = <<"a">> /\ viewer.goos = "linux"
    /\ Len(viewer.out) = 166

\* something of the document has been printed or handed to the viewer
Displayed ==
    cli.out # <<>> \/ viewer.pc # "idle" \/ viewer.out # <<>> \/ viewer.pager

\* C16: the command prints the content or hands it to the viewer only when
\* RenderContent has returned without error, and then the whole result; when
\* the file is missing or cannot be read, or rendering failed, nothing is
\* displayed and the exit status is 1
C16_DisplayAfterRender ==
    /\ Displayed =>
          /\ pc = "done" /\ rerr = nil /\ cli.file = "readable"
          /\ IF cli.vim THEN viewer.content = result /\ cli.out = <<>>
             ELSE cli.out = result /\ viewer.pc = "idle"
    /\ cli.file # "readable" \/ rerr # nil =>
          /\ ~Displayed
          /\ cli.pc = "exited" => cli.exit = 1
    /\ cli.pc = "exited" => cli.exit = (IF cli.err # nil THEN 1 ELSE 0)
C16_Witness ==
    /\ cli.pc = "exited" /\ cli.vim /\ viewer.pager /\ cli.exit = 0
    /\ Len(events) = 2 * NodeCount /\ NodeCount > 3
    /\ viewer.content = result /\ Len(result) > 1

\* the callbacks of a walk of the tree n from the node at p, in order
RECURSIVE WalkOrder(_, _)
RECURSIVE WalkChildren(_, _, _)
WalkChildren(n, p, i) ==
    IF i > Len(NodeAt(n, p).children) THEN <<>>
    ELSE WalkOrder(n, Append(p, i)) \o WalkChildren(n, p, i + 1)
WalkOrder(n, p) ==
    <<[path |-> p, entering |-> TRUE]>> \o WalkChildren(n, p, 1)
    \o <<[path |-> p, entering |-> FALSE]>>

\* the call c went through its own document in order, its buffer holds what
\* its own callbacks wrote and nothing else, and its result is made of that
CallAlone(c) ==
    LET order == WalkOrder(c.doc, <<>>)
        n == Len(c.events)
    IN  /\ n <= Len(order)
        /\ [i \in 1..n |-> [path |-> c.events[i].path,
                             entering |-> c.events[i].entering]]
               = SubSeq(order, 1, n)
        /\ \A i \in 1..n :
              c.events[i].kind = NodeAt(c.doc, c.events[i].path).kind
        /\ c.buf = Concat([i \in 1..n |-> c.events[i].out])
        /\ c.pc = "done" =>
              /\ n = Len(order)
              /\ c.rerr = nil
              /\ c.result = EnsureTrailingNewline(TrimTrailingWhitespace(c.buf))

\* C18: each of two concurrent RenderContent calls walks its own document
\* with its own position, fills its own buffer with what its own callbacks
\* wrote, each callback writing what it writes when the call runs alone, and
\* returns the result made of that buffer
C18_ConcurrentCallsIndependent ==
    /\ CallAlone(Running)
    /\ CallAlone(other)
    /\ \A i \in 1..Len(events) :
          events[i].out = renderNode(events[i].path, events[i].entering,
                                     events[i].h).out
C18_Witness ==
    /\ pc = "done" /\ other.pc = "done"
    /\ doc # other.doc /\ result # other.result
    /\ Len(events) > 4 /\ Len(other.events) > 4

\* C19 as stated: the enter of every table row, the header row included,
\* writes the styled border glyph and its exit begins with the reset and a
\* newline; a cell of the header row writes a space and the header style on
\* enter and begins its exit with the reset
C19_EveryRowFramed ==
    \A i \in 1..Len(events) :
        /\ events[i].kind \in {"TableHeader", "TableRow"} =>
              IF events[i].entering
              THEN events[i].out = <<GetColor("table_border"), "BAR">>
              ELSE /\ Len(events[i].out) >= 2
                   /\ SubSeq(events[i].out, 1, 2) = <<GetColor("reset"), NL>>
        /\ events[i].kind = "TableCell"
             /\ Kind(Parent(events[i].path)) = "TableHeader" =>
              IF events[i].entering
              THEN events[i].out = <<SP, GetColor("table_header")>>
              ELSE /\ events[i].out # <<>>
                   /\ events[i].out[1] = GetColor("reset")

\* the counter after the first k callbacks: List enters less List exits
DepthCounter(k) ==
    Cardinality({i \in 1..k : events[i].kind = "List" /\ events[i].entering})
    - Cardinality({i \in 1..k : events[i].kind = "List" /\ ~events[i].entering})

\* C20: at every ListItem enter the depth renderListItem counts from the List
\* ancestors (its level plus one, the level being what it indents by) is the
\* value of the counter of List enters less List exits; the counter is never
\* negative and is 0 when the walk has ended
C20_DepthMatchesCounter ==
    /\ \A k \in 0..Len(events) : DepthCounter(k) >= 0
    /\ \A i \in ItemEnters :
          /\ ListLevel(events[i].path) + 1 = DepthCounter(i - 1)
          /\ IndentOf(events[i].out) = 2 * (DepthCounter(i - 1) - 1)
    /\ pc \in {"post", "done"} => DepthCounter(Len(events)) = 0
C20_Witness ==
    /\ pc = "done" /\ DepthCounter(Len(events)) = 0
    /\ \E i, j \in ItemEnters :
          /\ i < j /\ DepthCounter(i - 1) = 3 /\ DepthCounter(j - 1) = 1
          /\ ListLevel(events[i].path) = 2

\* the places of s that hold a character of code: no escape, no blank
CodeChars(s) == {i \in 1..Len(s) : s[i] \notin Escapes \cup {NL, SP, TAB}}

\* C21 as stated: the enter of a code block writes one newline, the code
\* indented by one level, and two newlines, with no newline left between the
\* last character of the code and the two newlines
C21_CodeBlockFramed ==
    \A i \in 1..Len(events) :
        events[i].kind \in {"FencedCodeBlock", "CodeBlock"}
          /\ events[i].entering =>
            LET out == events[i].out
                body == SubSeq(out, 2, Len(out) - 2)
            IN  /\ Len(out) >= 3
                /\ out[1] = NL
                /\ SubSeq(out, Len(out) - 1, Len(out)) = <<NL, NL>>
                /\ CodeChars(body) # {} =>
                      /\ SubSeq(body, 1, 2) = <<SP, SP>>
                      /\ \A j \in 1..Len(body) :
                            j > Max(CodeChars(body)) => body[j] # NL

\* the number a decimal numeral of one or two digits stands for, -1 for
\* any other string
NumberOf(part) ==
    IF Len(part) = 1 /\ CharCode(part[1]) \in 48..57 THEN CharCode(part[1]) - 48
    ELSE IF Len(part) = 2 /\ CharCode(part[1]) \in 49..57
            /\ CharCode(part[2]) \in 48..57
    THEN 10 * (CharCode(part[1]) - 48) + CharCode(part[2]) - 48
    ELSE -1

\* C22 as stated: with COLORFGBG set and holding at least two parts, a last
\* part from 0 to 7 gives the dark background and a last part from 8 to 15
\* the light background, whatever the other indicators say
C22_ColorFgBgClassifies ==
    cpc = "returned" /\ call.fn = "New" =>
        LET parts == Split(call.colorfgbg, ";")
            n == NumberOf(parts[Len(parts)])
        IN  Len(parts) >= 2 =>
              /\ n \in 0..7 => ret = "dark"
              /\ n \in 8..15 => ret = "light"

\* C23: for a Text node that is not raw renderText writes the value with each
\* line break turned into a newline when the node is a hard line break, or a
\* soft line break and the break is the last of the value, and into a single
\* space otherwise; it writes nothing before, nothing after, nothing on exit
C23_TextLineBreaks ==
    call.fn = "renderText" /\ cpc \in {"entered", "returned"}
      /\ ~Node(path).raw =>
        LET n == Node(path)
            v == n.value
            breaks == {j \in 1..Len(v) : v[j] = NL}
        IN  /\ ret[1].err = nil
            /\ ret[1].out =
                  [j \in 1..Len(v) |->
                      IF v[j] # NL THEN v[j]
                      ELSE IF n.hard \/ (n.soft /\ j = Max(breaks)) THEN NL
                      ELSE SP]
            /\ cpc = "returned" => ret[2] = [out |-> <<>>, err |-> nil]
C23_Witness ==
    /\ call.fn = "renderText" /\ cpc = "returned"
    /\ Node(path).value = <<"a", NL, "a", NL>>
    /\ Node(path).soft /\ ~Node(path).hard /\ ~Node(path).raw
    /\ ret[1].out = <<"a", SP, "a", NL>>

\* what the callbacks of the node at p and of the nodes beneath it wrote
RECURSIVE WrittenUnder(_, _)
WrittenUnder(p, k) ==
    IF k = 0 THEN <<>>
    ELSE WrittenUnder(p, k - 1)
         \o (IF events[k].path = p \/ IsAncestor(p, events[k].path)
             THEN events[k].out ELSE <<>>)

\* C24: the enter of a CodeSpan writes its text once, between the Code style
\* and the reset; a Text node whose parent is a CodeSpan writes nothing on
\* enter and on exit, so the span as a whole writes its text exactly once
C24_CodeSpanOnce ==
    \A i \in 1..Len(events) :
        /\ events[i].kind = "CodeSpan" /\ events[i].entering =>
              events[i].out = <<GetColor("code")>>
                              \o NodeText(Node(events[i].path))
                              \o <<GetColor("reset")>>
        /\ events[i].kind = "Text"
             /\ Kind(Parent(events[i].path)) = "CodeSpan" =>
              events[i].out = <<>>
        /\ events[i].kind = "CodeSpan" /\ ~events[i].entering =>
              WrittenUnder(events[i].path, i)
                  = <<GetColor("code")>> \o NodeText(Node(events[i].path))
                    \o <<GetColor("reset")>>
C24_Witness ==
    /\ pc = "done"
    /\ \E i \in 1..Len(events) :
          /\ events[i].kind = "CodeSpan" /\ ~events[i].entering
          /\ Len(Node(events[i].path).children) = 2
          /\ Visible(WrittenUnder(events[i].path, i)) = <<"c", "d">>
    /\ CountTok(result, "c") = 1 /\ CountTok(result, "d") = 1

\* what the children of the node at p wrote, child after child
WrittenByChildren(p, k) ==
    Concat([c \in 1..Len(Node(p).children) |-> WrittenUnder(Append(p, c), k)])

UnknownEvents ==
    {i \in 1..Len(events) : events[i].kind \notin TypedKinds \cup NamedKinds}

\* C25: the enter and the exit of a node of a kind renderNode has no case
\* for write nothing and return no error, and the walk goes through the
\* node's children between the two, in document order, their output
\* being all that is written there
C25_UnknownKindSkipped ==
    /\ \A i \in UnknownEvents :
          /\ events[i].out = <<>>
          /\ events[i].err = nil
          /\ ~events[i].entering =>
                /\ WrittenUnder(events[i].path, i)
                       = WrittenByChildren(events[i].path, i)
                /\ \A c \in 1..Len(Node(events[i].path).children) :
                      \E j, k \in 1..(i - 1) :
                          /\ j < k
                          /\ events[j].path = Append(events[i].path, c)
                          /\ events[j].entering
                          /\ events[k].path = Append(events[i].path, c)
                          /\ ~events[k].entering
                          /\ c > 1 =>
                                \E m \in 1..(j - 1) :
                                    /\ events[m].path
                                         = Append(events[i].path, c - 1)
                                    /\ ~events[m].entering
    /\ pc = "done" => rerr = nil
C25_Witness ==
    /\ pc = "done"
    /\ \E i \in UnknownEvents :
          /\ ~events[i].entering
          /\ Len(Node(events[i].path).children) = 2
          /\ Visible(WrittenUnder(events[i].path, i)) = <<"[", SP, "]", SP, "t">>

\* the callbacks dispatched for the node at p: its enters and its exits
EntersOf(p) == {i \in 1..Len(events) : events[i].path = p /\ events[i].entering}
ExitsOf(p) == {i \in 1..Len(events) : events[i].path = p /\ ~events[i].entering}

\* C26: whatever the highlighter returns, no callback returns an error, the
\* walk ends with one enter and one exit callback for every node of the
\* document, and RenderContent returns a nil error
C26_NoHandlerError ==
    /\ \A i \in 1..Len(events) : events[i].err = nil
    /\ werr = nil
    /\ \A p \in PathsFrom(<<>>) :
          /\ Cardinality(EntersOf(p)) <= 1
          /\ Cardinality(ExitsOf(p)) <= Cardinality(EntersOf(p))
    /\ pc \in {"post", "done"} =>
          \A p \in PathsFrom(<<>>) :
              Cardinality(EntersOf(p)) = 1 /\ Cardinality(ExitsOf(p)) = 1
    /\ pc = "done" =>
          /\ rerr = nil
          /\ Len(events) = 2 * NodeCount
C26_Witness ==
    /\ pc = "done" /\ rerr = nil /\ werr = nil
    /\ Len(events) = 2 * NodeCount /\ NodeCount > 2
    /\ \E i \in 1..Len(events) :
          /\ events[i].kind = "FencedCodeBlock"
          /\ events[i].hlerr /\ events[i].err = nil

\* Display returns only after less has exited, and once less has exited its
\* return is enabled wherever the writer goroutine stands
ReturnsOnceLessExited ==
    /\ viewer.pc = "returned" /\ viewer.pager => viewer.proc = "exited"
    /\ viewer.pc = "wait" /\ viewer.proc = "exited" => ENABLED ViewerPagerWait

\* the writer closes stdin, and only after its write attempt has returned:
\* while less runs nothing else closes it, and a failed attempt is one that
\* less or cmd.Wait has cut short
StdinClosedAfterWrite ==
    /\ viewer.writer = "closed" => viewer.stdin = "closed"
    /\ viewer.stdin = "closed" /\ viewer.proc = "running" =>
          viewer.writer = "closed" /\ viewer.wrote = Len(viewer.content)
    /\ viewer.wfail =>
          /\ viewer.writer \in {"wrote", "closed"}
          /\ viewer.proc = "exited"
          /\ viewer.wrote < Len(viewer.content)

\* statuses 0 and 1 are returned as nil, every other ending as an error
StatusReported ==
    viewer.pc = "returned" /\ viewer.pager =>
        (viewer.err = nil <=> viewer.status \in {0, 1})

\* C27: Display returns once less has exited in every interleaving with the
\* writer goroutine, also when less exits before all content is written: the
\* writer never blocks the return, stdin is closed after the write attempt,
\* and status 0 or 1 gives nil while any other failure gives an error
C27_PagerDisplay ==
    /\ ReturnsOnceLessExited
    /\ StdinClosedAfterWrite
    /\ StatusReported

\* less is ended by a signal before the content is written, and Display
\* returns nil
SignalledLessReturnsNil ==
    /\ viewer.pc = "returned" /\ viewer.pager
    /\ viewer.status = -1 /\ viewer.err = nil
    /\ viewer.wrote < Len(viewer.content)
====
